---------------------------- MODULE Spec2Model ----------------------------
(***************************************************************************)
(* A model of the LS-8 emulator of src/ls8/cpu.py: the machine state of    *)
(* class CPU, its stack helpers, its opcode handlers, its ALU table and    *)
(* the instruction cycle step() driven by run().                           *)
(*                                                                         *)
(* Python integers are unbounded and Python lists accept negative indices: *)
(* both are modelled as the interpreter behaves, so a register that leaves *)
(* 0..255 is an ordinary integer here, and an exception is recorded in err *)
(* with the state as the interrupted handler left it.                      *)
(***************************************************************************)
EXTENDS Integers, Sequences, FiniteSets, TLC

VARIABLES
    R,                  \* self.R: the eight registers
    PC,                 \* self.PC
    IR,                 \* self.IR
    MAR,                \* self.MAR
    MDR,                \* self.MDR
    FL,                 \* self.FL
    RAM,                \* self.RAM: 256 cells
    interupts_enabled,  \* self.interupts_enabled
    HALT,               \* self.HALT
    PC_SET,             \* self.PC_SET
    opA,                \* self.opA
    opB,                \* self.opB
    out,                \* standard output, as the sequence of code points written
    err,                \* the exception that left step(), or "none"
    steps,              \* number of step() calls made by run()
    prev,               \* the machine as it was before the last operation
    lastCall,           \* bookkeeping of the most recent CALL
    phase,              \* position of the stack exercise: "push", "pop"
    pushed,             \* values given to push(), oldest first
    popped              \* values returned by pop(), oldest first

vars == <<R, PC, IR, MAR, MDR, FL, RAM, interupts_enabled, HALT, PC_SET,
          opA, opB, out, err, steps, prev, lastCall, phase, pushed, popped>>

-----------------------------------------------------------------------------
(* Sizes fixed by the program.                                             *)

NumRegs == 8

RamSize == 256

InitialSP == 244

(* Bounds of the exploration.                                              *)

MaxSteps == 6

MaxPushes == 257

-----------------------------------------------------------------------------
(* Python integer operators on unbounded integers.                         *)

\* x & 255
And255(x) == x % 256

\* x & 7
And7(x) == x % 8

\* ~x
Invert(x) == (0 - x) - 1

RECURSIVE BitAnd(_, _)
\* x & y on two's-complement integers of unbounded width
BitAnd(x, y) ==
    IF x = 0 \/ y = 0 THEN 0
    ELSE IF x = -1 THEN y
    ELSE IF y = -1 THEN x
    ELSE (x % 2) * (y % 2) + 2 * BitAnd(x \div 2, y \div 2)

RECURSIVE BitOr(_, _)
\* x | y
BitOr(x, y) ==
    IF x = 0 THEN y
    ELSE IF y = 0 THEN x
    ELSE IF x = -1 \/ y = -1 THEN -1
    ELSE (IF x % 2 = 1 \/ y % 2 = 1 THEN 1 ELSE 0) + 2 * BitOr(x \div 2, y \div 2)

RECURSIVE BitXor(_, _)
\* x ^ y
BitXor(x, y) ==
    IF x = 0 THEN y
    ELSE IF y = 0 THEN x
    ELSE IF x = -1 THEN Invert(y)
    ELSE IF y = -1 THEN Invert(x)
    ELSE (((x % 2) + (y % 2)) % 2) + 2 * BitXor(x \div 2, y \div 2)

RECURSIVE ShiftLeft255(_, _)
\* (x << n) & 255 for n >= 0, reduced modulo 256 at every doubling
ShiftLeft255(x, n) ==
    IF n = 0 \/ x % 256 = 0 THEN x % 256
    ELSE ShiftLeft255((x % 256) * 2, n - 1)

RECURSIVE ShiftRight(_, _)
\* x >> n for n >= 0 (floor division by 2^n)
ShiftRight(x, n) ==
    IF n = 0 \/ x = 0 \/ x = -1 THEN x
    ELSE ShiftRight(x \div 2, n - 1)

\* (x & 2 ** i) >> i
BitOf(x, i) == ShiftRight(x, i) % 2

RECURSIVE Digits(_)
\* the decimal digits of n >= 0 as code points
Digits(n) ==
    IF n < 10 THEN <<48 + n>>
    ELSE Digits(n \div 10) \o <<48 + (n % 10)>>

\* str(n), as code points ('-' is 45)
str(n) == IF n < 0 THEN <<45>> \o Digits(0 - n) ELSE Digits(n)

\* whether list[i] is a valid subscript of a Python list of length n
ValidIndex(i, n) == (0 - n) <= i /\ i < n

\* the cell that list[i] denotes (negative subscripts count from the end)
ListIndex(i, n) == i % n

\* a // b for b # 0 (the quotient rounded towards minus infinity)
FloorDiv(a, b) == IF b > 0 THEN a \div b ELSE (0 - a) \div (0 - b)

\* a % b for b # 0 (the remainder has the sign of b)
FloorMod(a, b) == a - b * FloorDiv(a, b)

\* chr(v) is defined for the Unicode code points only
ChrOK(v) == 0 <= v /\ v <= 1114111

-----------------------------------------------------------------------------
(* The machine: one record per CPU object.  Every handler below is an       *)
(* operator from the machine before the call to the machine after it; an   *)
(* exception is the field err, set at the statement that raises.           *)

\* the CPU object held in the variables
Self ==
    [R |-> R, PC |-> PC, IR |-> IR, MAR |-> MAR, MDR |-> MDR, FL |-> FL,
     RAM |-> RAM, interupts_enabled |-> interupts_enabled, HALT |-> HALT,
     PC_SET |-> PC_SET, opA |-> opA, opB |-> opB, out |-> out, err |-> err]

\* CPU.__init__
CPU_init ==
    [R |-> [i \in 0..(NumRegs - 1) |-> IF i = 7 THEN InitialSP ELSE 0],
     PC |-> 0, IR |-> 0, MAR |-> 0, MDR |-> 0, FL |-> 0,
     RAM |-> [a \in 0..(RamSize - 1) |-> 0],
     interupts_enabled |-> TRUE, HALT |-> FALSE, PC_SET |-> FALSE,
     opA |-> 0, opB |-> 0, out |-> <<>>, err |-> "none"]

\* raise an exception out of the running handler
Raise(m, e) == [m EXCEPT !.err = e]

Failed(m) == m.err # "none"

\* self.R[i] with the subscript unmasked: IndexError outside -8..7
RegOK(i) == ValidIndex(i, NumRegs)

RegAt(m, i) == m.R[ListIndex(i, NumRegs)]

register(m, num) == m.R[And7(num)]

flag(m, j) ==
    LET i == And7(j)
    IN  ShiftRight(BitAnd(m.FL, 2 ^ i), i)

\* set_flag as it would be if it cleared every bit, not only bit i
set_flag_from_zero(m, j, b) ==
    LET i == And7(j)
    IN  [m EXCEPT !.FL = IF b THEN 2 ^ i ELSE 0]

set_flag(m, j, b) ==
    LET i == And7(j)
        zeroed == m.FL - BitAnd(m.FL, 2 ^ i)
    IN  [m EXCEPT !.FL = IF b THEN zeroed + 2 ^ i ELSE zeroed]

L(m) == flag(m, 2)

set_L(m, b) == set_flag(m, 2, b)

G(m) == flag(m, 1)

set_G(m, b) == set_flag(m, 1, b)

E(m) == flag(m, 0)

set_E(m, b) == set_flag(m, 0, b)

ram_read(m) ==
    IF ~ValidIndex(m.MAR, RamSize) THEN Raise(m, "MemoryIndexError")
    ELSE [m EXCEPT !.MDR = m.RAM[ListIndex(m.MAR, RamSize)]]

\* ram_write(self, value, address): both arguments are required and ignored
ram_write(m, value, address) ==
    IF ~ValidIndex(m.MAR, RamSize) THEN Raise(m, "MemoryIndexError")
    ELSE [m EXCEPT !.RAM[ListIndex(m.MAR, RamSize)] = m.MDR]

SP(m) == m.R[7]

set_SP(m, value) == [m EXCEPT !.R[7] = value]

\* pop as it would be if it left SP where it was
pop_keep_SP(m) ==
    IF ~ValidIndex(SP(m), RamSize)
    THEN [m |-> Raise(m, "MemoryIndexError"), val |-> 0]
    ELSE LET a == ListIndex(SP(m), RamSize)
         IN  [m |-> [m EXCEPT !.RAM[a] = 0], val |-> m.RAM[a]]

\* pop(): the machine after the call and the value returned
pop(m) ==
    IF ~ValidIndex(SP(m), RamSize)
    THEN [m |-> Raise(m, "MemoryIndexError"), val |-> 0]
    ELSE LET a == ListIndex(SP(m), RamSize)
             m1 == [m EXCEPT !.RAM[a] = 0]
         IN  [m |-> set_SP(m1, And255(SP(m1) + 1)), val |-> m.RAM[a]]

\* push as it would be with the store made before SP moves
push_store_first(m, val) ==
    LET m1 == [m EXCEPT !.RAM[ListIndex(SP(m), RamSize)] = And255(val)]
    IN  set_SP(m1, And255(SP(m1) - 1))

\* push(val): SP is masked first, so the store never leaves the list
push(m, val) ==
    LET m1 == set_SP(m, And255(SP(m) - 1))
    IN  [m1 EXCEPT !.RAM[ListIndex(SP(m1), RamSize)] = And255(val)]

\* `self.R[i] = self.pop()`: the assignment happens only if pop() returned
PopReg(m, i) ==
    IF Failed(m) THEN m
    ELSE LET p == pop(m)
         IN  IF Failed(p.m) THEN p.m ELSE [p.m EXCEPT !.R[i] = p.val]

\* `self.FL = self.pop()`
PopFL(m) ==
    IF Failed(m) THEN m
    ELSE LET p == pop(m)
         IN  IF Failed(p.m) THEN p.m ELSE [p.m EXCEPT !.FL = p.val]

\* `self.PC = self.pop()`
PopPC(m) ==
    IF Failed(m) THEN m
    ELSE LET p == pop(m)
         IN  IF Failed(p.m) THEN p.m ELSE [p.m EXCEPT !.PC = p.val]

-----------------------------------------------------------------------------
(* The ALU table.  The handlers receive the operand bytes as they were     *)
(* fetched: self.R[reg_a] is an unmasked list subscript.                   *)

ALU_INC(m, reg_a, reg_b) ==
    IF ~RegOK(reg_a) THEN Raise(m, "RegisterIndexError")
    ELSE [m EXCEPT !.R[ListIndex(reg_a, NumRegs)] = And255(RegAt(m, reg_a) + 1)]

ALU_DEC(m, reg_a, reg_b) ==
    IF ~RegOK(reg_a) THEN Raise(m, "RegisterIndexError")
    ELSE [m EXCEPT !.R[ListIndex(reg_a, NumRegs)] = And255(RegAt(m, reg_a) - 1)]

ALU_NOT(m, reg_a, reg_b) ==
    IF ~RegOK(reg_a) THEN Raise(m, "RegisterIndexError")
    ELSE [m EXCEPT !.R[ListIndex(reg_a, NumRegs)] = Invert(RegAt(m, reg_a))]

ALU_ADD(m, reg_a, reg_b) ==
    IF ~RegOK(reg_a) \/ ~RegOK(reg_b) THEN Raise(m, "RegisterIndexError")
    ELSE [m EXCEPT !.R[ListIndex(reg_a, NumRegs)] =
                        And255(RegAt(m, reg_a) + RegAt(m, reg_b))]

ALU_SUB(m, reg_a, reg_b) ==
    IF ~RegOK(reg_a) \/ ~RegOK(reg_b) THEN Raise(m, "RegisterIndexError")
    ELSE [m EXCEPT !.R[ListIndex(reg_a, NumRegs)] =
                        And255(RegAt(m, reg_a) - RegAt(m, reg_b))]

\* ALU_MUL as it would be without the mask
ALU_MUL_unmasked(m, reg_a, reg_b) ==
    IF ~RegOK(reg_a) \/ ~RegOK(reg_b) THEN Raise(m, "RegisterIndexError")
    ELSE [m EXCEPT !.R[ListIndex(reg_a, NumRegs)] =
                        RegAt(m, reg_a) * RegAt(m, reg_b)]

ALU_MUL(m, reg_a, reg_b) ==
    IF ~RegOK(reg_a) \/ ~RegOK(reg_b) THEN Raise(m, "RegisterIndexError")
    ELSE [m EXCEPT !.R[ListIndex(reg_a, NumRegs)] =
                        And255(RegAt(m, reg_a) * RegAt(m, reg_b))]

\* ALU_DIV as it would be if a zero divisor gave 0 instead of raising
ALU_DIV_zero_result(m, reg_a, reg_b) ==
    IF ~RegOK(reg_b) \/ ~RegOK(reg_a) THEN Raise(m, "RegisterIndexError")
    ELSE [m EXCEPT !.R[ListIndex(reg_a, NumRegs)] =
                        IF RegAt(m, reg_b) = 0 THEN 0
                        ELSE FloorDiv(RegAt(m, reg_a), RegAt(m, reg_b))]

ALU_DIV(m, reg_a, reg_b) ==
    IF ~RegOK(reg_b) THEN Raise(m, "RegisterIndexError")
    ELSE IF RegAt(m, reg_b) = 0 THEN Raise(m, "DivisionByZero")
    ELSE IF ~RegOK(reg_a) THEN Raise(m, "RegisterIndexError")
    ELSE [m EXCEPT !.R[ListIndex(reg_a, NumRegs)] =
                        FloorDiv(RegAt(m, reg_a), RegAt(m, reg_b))]

ALU_MOD(m, reg_a, reg_b) ==
    IF ~RegOK(reg_b) THEN Raise(m, "RegisterIndexError")
    ELSE IF RegAt(m, reg_b) = 0 THEN Raise(m, "DivisionByZero")
    ELSE IF ~RegOK(reg_a) THEN Raise(m, "RegisterIndexError")
    ELSE [m EXCEPT !.R[ListIndex(reg_a, NumRegs)] =
                        FloorMod(RegAt(m, reg_a), RegAt(m, reg_b))]

\* ALU_CMP as it would be without the three clearing calls
ALU_CMP_no_clear(m, reg_a, reg_b) ==
    IF ~RegOK(reg_a) \/ ~RegOK(reg_b) THEN Raise(m, "RegisterIndexError")
    ELSE IF RegAt(m, reg_a) < RegAt(m, reg_b) THEN set_L(m, TRUE)
    ELSE IF RegAt(m, reg_a) > RegAt(m, reg_b) THEN set_G(m, TRUE)
    ELSE set_E(m, TRUE)

ALU_CMP(m, reg_a, reg_b) ==
    LET m1 == set_L(m, FALSE)
        m2 == set_G(m1, FALSE)
        m3 == set_E(m2, FALSE)
    IN  IF ~RegOK(reg_a) \/ ~RegOK(reg_b) THEN Raise(m3, "RegisterIndexError")
        ELSE IF RegAt(m3, reg_a) < RegAt(m3, reg_b) THEN set_L(m3, TRUE)
        ELSE IF RegAt(m3, reg_a) > RegAt(m3, reg_b) THEN set_G(m3, TRUE)
        ELSE set_E(m3, TRUE)

ALU_AND(m, reg_a, reg_b) ==
    IF ~RegOK(reg_a) \/ ~RegOK(reg_b) THEN Raise(m, "RegisterIndexError")
    ELSE [m EXCEPT !.R[ListIndex(reg_a, NumRegs)] =
                        BitAnd(RegAt(m, reg_a), RegAt(m, reg_b))]

ALU_OR(m, reg_a, reg_b) ==
    IF ~RegOK(reg_a) \/ ~RegOK(reg_b) THEN Raise(m, "RegisterIndexError")
    ELSE [m EXCEPT !.R[ListIndex(reg_a, NumRegs)] =
                        BitOr(RegAt(m, reg_a), RegAt(m, reg_b))]

ALU_XOR(m, reg_a, reg_b) ==
    IF ~RegOK(reg_a) \/ ~RegOK(reg_b) THEN Raise(m, "RegisterIndexError")
    ELSE [m EXCEPT !.R[ListIndex(reg_a, NumRegs)] =
                        BitXor(RegAt(m, reg_a), RegAt(m, reg_b))]

\* a negative shift count is a ValueError
ALU_SHL(m, reg_a, reg_b) ==
    IF ~RegOK(reg_a) \/ ~RegOK(reg_b) THEN Raise(m, "RegisterIndexError")
    ELSE IF RegAt(m, reg_b) < 0 THEN Raise(m, "ValueError")
    ELSE [m EXCEPT !.R[ListIndex(reg_a, NumRegs)] =
                        ShiftLeft255(RegAt(m, reg_a), RegAt(m, reg_b))]

ALU_SHR(m, reg_a, reg_b) ==
    IF ~RegOK(reg_a) \/ ~RegOK(reg_b) THEN Raise(m, "RegisterIndexError")
    ELSE IF RegAt(m, reg_b) < 0 THEN Raise(m, "ValueError")
    ELSE [m EXCEPT !.R[ListIndex(reg_a, NumRegs)] =
                        ShiftRight(RegAt(m, reg_a), RegAt(m, reg_b))]

\* create_ALU_table: the tags that have an entry
ALU_table ==
    {"INC", "DEC", "NOT", "ADD", "SUB", "MUL", "DIV", "MOD", "CMP",
     "AND", "OR", "XOR", "SHL", "SHR"}

alu(m, op, reg_a, reg_b) ==
    IF op \notin ALU_table THEN Raise(m, "UnsupportedALUOperation")
    ELSE CASE op = "INC" -> ALU_INC(m, reg_a, reg_b)
           [] op = "DEC" -> ALU_DEC(m, reg_a, reg_b)
           [] op = "NOT" -> ALU_NOT(m, reg_a, reg_b)
           [] op = "ADD" -> ALU_ADD(m, reg_a, reg_b)
           [] op = "SUB" -> ALU_SUB(m, reg_a, reg_b)
           [] op = "MUL" -> ALU_MUL(m, reg_a, reg_b)
           [] op = "DIV" -> ALU_DIV(m, reg_a, reg_b)
           [] op = "MOD" -> ALU_MOD(m, reg_a, reg_b)
           [] op = "CMP" -> ALU_CMP(m, reg_a, reg_b)
           [] op = "AND" -> ALU_AND(m, reg_a, reg_b)
           [] op = "OR"  -> ALU_OR(m, reg_a, reg_b)
           [] op = "XOR" -> ALU_XOR(m, reg_a, reg_b)
           [] op = "SHL" -> ALU_SHL(m, reg_a, reg_b)
           [] op = "SHR" -> ALU_SHR(m, reg_a, reg_b)

-----------------------------------------------------------------------------
(* The opcode handlers.                                                    *)

NOP(m) == m

\* HLT as it would be if it flipped the halt state
HLT_toggle(m) == [m EXCEPT !.HALT = ~m.HALT]

HLT(m) == [m EXCEPT !.HALT = TRUE]

RET(m) == PopPC([m EXCEPT !.PC_SET = TRUE])

\* IRET as it would be if the registers were popped R0 first
IRET_ascending(m) ==
    LET m0 == [m EXCEPT !.PC_SET = TRUE]
        m1 == PopReg(m0, 0)
        m2 == PopReg(m1, 1)
        m3 == PopReg(m2, 2)
        m4 == PopReg(m3, 3)
        m5 == PopReg(m4, 4)
        m6 == PopReg(m5, 5)
        m7 == PopReg(m6, 6)
        m8 == PopFL(m7)
        m9 == PopPC(m8)
    IN  IF Failed(m9) THEN m9 ELSE [m9 EXCEPT !.interupts_enabled = TRUE]

IRET(m) ==
    LET m0 == [m EXCEPT !.PC_SET = TRUE]
        m1 == PopReg(m0, 6)
        m2 == PopReg(m1, 5)
        m3 == PopReg(m2, 4)
        m4 == PopReg(m3, 3)
        m5 == PopReg(m4, 2)
        m6 == PopReg(m5, 1)
        m7 == PopReg(m6, 0)
        m8 == PopFL(m7)
        m9 == PopPC(m8)
    IN  IF Failed(m9) THEN m9 ELSE [m9 EXCEPT !.interupts_enabled = TRUE]

PUSH(m) == push(m, m.R[And7(m.opA)])

POP(m) == PopReg(m, And7(m.opA))

\* print(x) writes str(x) and a newline (code point 10)
\* PRN as it would be if it emitted the character, as PRA does
PRN_character(m) == [m EXCEPT !.out = Append(m.out, m.R[And7(m.opA)])]

PRN(m) == [m EXCEPT !.out = m.out \o str(m.R[And7(m.opA)]) \o <<10>>]

\* print(chr(x), end=''): chr raises ValueError outside the code points
PRA(m) ==
    IF ~ChrOK(m.R[And7(m.opA)]) THEN Raise(m, "ValueError")
    ELSE [m EXCEPT !.out = Append(m.out, m.R[And7(m.opA)])]

CALL(m) ==
    LET m1 == [m EXCEPT !.PC_SET = TRUE]
        m2 == push(m1, And255(m1.PC + 2))
    IN  [m2 EXCEPT !.PC = m2.R[And7(m2.opA)]]

\* `PC_SET = True` binds a local name: the machine is untouched
INT(m) == m

JMP(m) == [m EXCEPT !.PC_SET = TRUE, !.PC = m.R[And7(m.opA)]]

JEQ(m) ==
    IF E(m) # 0
    THEN [m EXCEPT !.PC_SET = TRUE, !.PC = m.R[And7(m.opA)]]
    ELSE m

JNE(m) ==
    IF ~(E(m) # 0)
    THEN [m EXCEPT !.PC_SET = TRUE, !.PC = m.R[And7(m.opA)]]
    ELSE m

JGT(m) ==
    IF G(m) # 0
    THEN [m EXCEPT !.PC_SET = TRUE, !.PC = m.R[And7(m.opA)]]
    ELSE m

JLT(m) ==
    IF L(m) # 0
    THEN [m EXCEPT !.PC_SET = TRUE, !.PC = m.R[And7(m.opA)]]
    ELSE m

\* JLE as it would be if only the L flag were tested
JLE_less_only(m) ==
    IF L(m) # 0
    THEN [m EXCEPT !.PC_SET = TRUE, !.PC = m.R[And7(m.opA)]]
    ELSE m

JLE(m) ==
    IF L(m) # 0 \/ E(m) # 0
    THEN [m EXCEPT !.PC_SET = TRUE, !.PC = m.R[And7(m.opA)]]
    ELSE m

JGE(m) ==
    IF G(m) # 0 \/ E(m) # 0
    THEN [m EXCEPT !.PC_SET = TRUE, !.PC = m.R[And7(m.opA)]]
    ELSE m

INC(m) == alu(m, "INC", m.opA, m.opB)

DEC(m) == alu(m, "DEC", m.opA, m.opB)

NOT(m) == alu(m, "NOT", m.opA, m.opB)

\* LDI as it would be with its two operands exchanged
LDI_operands_swapped(m) == [m EXCEPT !.R[And7(m.opB)] = m.opA]

LDI(m) == [m EXCEPT !.R[And7(m.opA)] = m.opB]

LD(m) ==
    LET m1 == ram_read([m EXCEPT !.MAR = m.R[And7(m.opB)]])
    IN  IF Failed(m1) THEN m1 ELSE [m1 EXCEPT !.R[And7(m1.opA)] = m1.MDR]

\* self.ram_write() is called without its two required arguments: the call
\* itself raises TypeError, after MAR and MDR were latched
ST(m) ==
    LET m1 == [m EXCEPT !.MAR = m.R[And7(m.opA)]]
        m2 == [m1 EXCEPT !.MDR = m1.R[And7(m1.opB)]]
    IN  Raise(m2, "TypeError")

ADD(m) == alu(m, "ADD", m.opA, m.opB)

SUB(m) == alu(m, "SUB", m.opA, m.opB)

MUL(m) == alu(m, "MUL", m.opA, m.opB)

DIV(m) == alu(m, "DIV", m.opA, m.opB)

MOD(m) == alu(m, "MOD", m.opA, m.opB)

CMP(m) == alu(m, "CMP", m.opA, m.opB)

AND(m) == alu(m, "AND", m.opA, m.opB)

OR(m) == alu(m, "OR", m.opA, m.opB)

XOR(m) == alu(m, "XOR", m.opA, m.opB)

SHL(m) == alu(m, "SHL", m.opA, m.opB)

SHR(m) == alu(m, "SHR", m.opA, m.opB)

\* create_opcode_table: opcode byte -> handler
opcode_table ==
    0 :> "NOP" @@ 1 :> "HLT" @@ 17 :> "RET" @@ 19 :> "IRET" @@
    69 :> "PUSH" @@ 70 :> "POP" @@ 71 :> "PRN" @@ 72 :> "PRA" @@
    80 :> "CALL" @@ 82 :> "INT" @@ 84 :> "JMP" @@ 85 :> "JEQ" @@
    86 :> "JNE" @@ 87 :> "JGT" @@ 88 :> "JLT" @@ 89 :> "JLE" @@
    90 :> "JGE" @@ 101 :> "INC" @@ 102 :> "DEC" @@ 105 :> "NOT" @@
    130 :> "LDI" @@ 131 :> "LD" @@ 132 :> "ST" @@ 160 :> "ADD" @@
    161 :> "SUB" @@ 162 :> "MUL" @@ 163 :> "DIV" @@ 164 :> "MOD" @@
    167 :> "CMP" @@ 168 :> "AND" @@ 170 :> "OR" @@ 171 :> "XOR" @@
    172 :> "SHL" @@ 173 :> "SHR"

\* op(): the call of the handler the table gave
Dispatch(m, h) ==
    CASE h = "NOP" -> NOP(m)   [] h = "HLT" -> HLT(m)
      [] h = "RET" -> RET(m)   [] h = "IRET" -> IRET(m)
      [] h = "PUSH" -> PUSH(m) [] h = "POP" -> POP(m)
      [] h = "PRN" -> PRN(m)   [] h = "PRA" -> PRA(m)
      [] h = "CALL" -> CALL(m) [] h = "INT" -> INT(m)
      [] h = "JMP" -> JMP(m)   [] h = "JEQ" -> JEQ(m)
      [] h = "JNE" -> JNE(m)   [] h = "JGT" -> JGT(m)
      [] h = "JLT" -> JLT(m)   [] h = "JLE" -> JLE(m)
      [] h = "JGE" -> JGE(m)   [] h = "INC" -> INC(m)
      [] h = "DEC" -> DEC(m)   [] h = "NOT" -> NOT(m)
      [] h = "LDI" -> LDI(m)   [] h = "LD" -> LD(m)
      [] h = "ST" -> ST(m)     [] h = "ADD" -> ADD(m)
      [] h = "SUB" -> SUB(m)   [] h = "MUL" -> MUL(m)
      [] h = "DIV" -> DIV(m)   [] h = "MOD" -> MOD(m)
      [] h = "CMP" -> CMP(m)   [] h = "AND" -> AND(m)
      [] h = "OR" -> OR(m)     [] h = "XOR" -> XOR(m)
      [] h = "SHL" -> SHL(m)   [] h = "SHR" -> SHR(m)

\* load(program): copy the bytes to address 0 onwards
load(m, program) ==
    [m EXCEPT !.RAM = [a \in 0..(RamSize - 1) |->
                          IF a < Len(program) THEN program[a + 1] ELSE m.RAM[a]]]

\* step(), first part: the three reads through MAR/MDR, then PC_SET = False
fetch(m) ==
    LET m1 == ram_read([m EXCEPT !.MAR = m.PC])
        m2 == [m1 EXCEPT !.IR = m1.MDR]
        m3 == ram_read([m2 EXCEPT !.MAR = And255(m2.MAR + 1)])
        m4 == [m3 EXCEPT !.opA = m3.MDR]
        m5 == ram_read([m4 EXCEPT !.MAR = And255(m4.MAR + 1)])
        m6 == [m5 EXCEPT !.opB = m5.MDR]
    IN  IF Failed(m1) THEN m1 ELSE [m6 EXCEPT !.PC_SET = FALSE]

\* step(), last part: the advance of PC when no handler set it
advance(m) ==
    IF m.PC_SET THEN m
    ELSE LET high6 == ShiftRight(BitAnd(m.IR, 2 ^ 6), 6)
             high7 == ShiftRight(BitAnd(m.IR, 2 ^ 7), 7)
             m1 == IF high6 # 0 THEN [m EXCEPT !.PC = And255(m.PC + 2)] ELSE m
         IN  IF high7 # 0 THEN [m1 EXCEPT !.PC = And255(m1.PC + 3)] ELSE m1

\* step() as it would be if a byte without a handler were skipped like NOP
step_skip_unknown(m) ==
    LET f == fetch(m)
    IN  IF Failed(f) THEN f
        ELSE IF f.IR \notin DOMAIN opcode_table THEN advance(f)
        ELSE LET x == Dispatch(f, opcode_table[f.IR])
             IN  IF Failed(x) THEN x ELSE advance(x)

\* step(): one instruction cycle
step(m) ==
    LET f == fetch(m)
    IN  IF Failed(f) THEN f
        ELSE IF f.IR \notin DOMAIN opcode_table THEN Raise(f, "UndefinedOpcode")
        ELSE LET x == Dispatch(f, opcode_table[f.IR])
             IN  IF Failed(x) THEN x ELSE advance(x)

-----------------------------------------------------------------------------
(* The programs handed to load().                                          *)

\* operand bytes naming a register: R0, R7 (the stack pointer), and 9,
\* a byte above 7 whose low three bits name R1
RegBytes == {0, 7, 9}

\* immediate operands of LDI
ImmBytes == {0, 5, 128, 255}

\* first operand bytes of LDI: also 8 and 255, whose low three bits name
\* R0 and R7
LDIRegBytes == RegBytes \cup {8, 255}

\* bytes that are no key of the opcode table
UndefinedBytes == {2, 255}

\* number of operand bytes an opcode announces in its bits 6 and 7
OperandCount(op) == op \div 64

\* one encoded instruction: the opcode byte and its operand bytes
Instrs ==
    {<<op>> : op \in {o \in DOMAIN opcode_table : OperandCount(o) = 0}}
    \cup {<<u>> : u \in UndefinedBytes}
    \cup {<<op, a>> : op \in {o \in DOMAIN opcode_table : OperandCount(o) = 1},
                      a \in RegBytes}
    \cup {<<op, a, b>> : op \in {o \in DOMAIN opcode_table :
                                     OperandCount(o) = 2 /\ o # 130},
                         a \in RegBytes, b \in RegBytes}
    \cup {<<130, a, v>> : a \in LDIRegBytes, v \in ImmBytes}

\* a program image: code at address 0, data ending at the top of the stack
\* region (addresses 244..252 are what nine pops from the initial SP read)
Image(code, data) ==
    [a \in 1..(InitialSP + Len(data)) |->
        IF a <= Len(code) THEN code[a]
        ELSE IF a > InitialSP THEN data[a - InitialSP]
        ELSE 0]

\* LDI R0,8; LDI R1,9; ADD R0,R1; PRN R0; HLT
ScenarioA == <<130, 0, 8, 130, 1, 9, 160, 0, 1, 71, 0, 1>>

\* LDI R0,42; PUSH R0; POP R1; PRN R1; HLT
ScenarioB == <<130, 0, 42, 69, 0, 70, 1, 71, 1, 1>>

\* longer programs: the scenarios of the documentation and programs that
\* reach the states short programs cannot
Scenarios ==
    { ScenarioA,
      ScenarioB,
      <<130, 2, 6, 80, 2, 1, 17>>,
      <<130, 1, 7, 105, 7, 80, 1, 17>>,
      <<130, 0, 255, 105, 0, 105, 1, 163, 0, 1, 84, 0>>,
      <<0, 1>>,
      <<130, 7, 250, 19>>,
      Image(<<19, 167, 0, 1, 1>>, <<6, 5, 4, 3, 2, 200, 100, 255, 1>>),
      Image(<<19, 0, 0, 167, 1, 0, 1>>, <<1, 2, 3, 4, 5, 7, 7, 170, 3>>) }

\* first instructions that leave a state the second one can tell apart:
\* LDI R0,5; LDI R0,255; LDI R7,5 (moves SP); NOT R0; NOT R7;
\* CMP R0,R0 (sets E); CMP R0,R7 (sets L); CMP R7,R0 (sets G); PUSH R7
Prefixes ==
    { <<130, 0, 5>>, <<130, 0, 255>>, <<130, 7, 5>>, <<105, 0>>, <<105, 7>>,
      <<167, 0, 0>>, <<167, 0, 7>>, <<167, 7, 0>>, <<69, 7>> }

\* register values the ALU instructions are run on
ALUValues == {0, 1, 3, 8, 200, 255}

\* LDI R0,x; LDI R1,y; op R0,R1 for every two-operand ALU opcode, and
\* LDI R0,x; op R0 for every one-operand ALU opcode
ALUPrograms ==
    {<<130, 0, x, 130, 1, y, op, 0, 1>> :
        x \in ALUValues, y \in ALUValues,
        op \in {o \in DOMAIN opcode_table :
                  OperandCount(o) = 2 /\ opcode_table[o] \in ALU_table}}
    \cup {<<130, 0, x, op, 0>> :
        x \in ALUValues,
        op \in {o \in DOMAIN opcode_table :
                  OperandCount(o) = 1 /\ opcode_table[o] \in ALU_table}}

Programs ==
    {i : i \in Instrs} \cup {i \o j : i \in Prefixes, j \in Instrs}
    \cup Scenarios \cup ALUPrograms

-----------------------------------------------------------------------------
(* The state machine: run() on a freshly constructed, loaded machine.      *)

\* the variables take the fields of machine n
Commit(n) ==
    /\ R' = n.R
    /\ PC' = n.PC
    /\ IR' = n.IR
    /\ MAR' = n.MAR
    /\ MDR' = n.MDR
    /\ FL' = n.FL
    /\ RAM' = n.RAM
    /\ interupts_enabled' = n.interupts_enabled
    /\ HALT' = n.HALT
    /\ PC_SET' = n.PC_SET
    /\ opA' = n.opA
    /\ opB' = n.opB
    /\ out' = n.out
    /\ err' = n.err

NoCall == [live |-> FALSE, p |-> 0, ret |-> 0, sp0 |-> 0, sp1 |-> 0]

\* the machine before an operation, with the CALL bookkeeping of that moment
Snapshot == [m |-> Self, call |-> lastCall]

\* the variables hold machine n
Holds(n) ==
    /\ R = n.R
    /\ PC = n.PC
    /\ IR = n.IR
    /\ MAR = n.MAR
    /\ MDR = n.MDR
    /\ FL = n.FL
    /\ RAM = n.RAM
    /\ interupts_enabled = n.interupts_enabled
    /\ HALT = n.HALT
    /\ PC_SET = n.PC_SET
    /\ opA = n.opA
    /\ opB = n.opB
    /\ out = n.out
    /\ err = n.err

\* cpu = CPU(); cpu.load(program)
Init ==
    /\ \E n \in {load(CPU_init, program) : program \in Programs} : Holds(n)
    /\ steps = 0
    /\ lastCall = NoCall
    /\ prev = [m |-> CPU_init, call |-> NoCall]
    /\ phase = "run"
    /\ pushed = <<>>
    /\ popped = <<>>

\* `while not self.HALT:` with no exception pending, within the step bound
Running == ~HALT /\ err = "none" /\ phase = "run" /\ steps < MaxSteps

\* the CALL bookkeeping after a step from Self to n under handler h: a CALL
\* that returned is recorded; any other step that changes the recorded
\* stack cell ends the record
TrackCall(h, n) ==
    IF h = "CALL" /\ ~Failed(n)
    THEN [live |-> TRUE, p |-> PC, ret |-> n.RAM[SP(n)],
          sp0 |-> R[7], sp1 |-> SP(n)]
    ELSE IF lastCall.live /\ n.RAM[lastCall.sp1] # RAM[lastCall.sp1]
    THEN [lastCall EXCEPT !.live = FALSE]
    ELSE lastCall

\* whether the first read of step(), RAM[PC], succeeds
FetchOK == ValidIndex(PC, RamSize)

\* the byte step() reads into IR
OpcodeByte == RAM[ListIndex(PC, RamSize)]

\* one iteration of run() whose fetch succeeds and decodes to handler h
Execute(h) ==
    /\ Running
    /\ FetchOK
    /\ OpcodeByte \in DOMAIN opcode_table
    /\ opcode_table[OpcodeByte] = h
    /\ \E n \in {step(Self)} :
          /\ Commit(n)
          /\ lastCall' = TrackCall(h, n)
    /\ steps' = steps + 1
    /\ prev' = Snapshot
    /\ UNCHANGED <<phase, pushed, popped>>

StepNOP == Execute("NOP")

StepHLT == Execute("HLT")

StepRET == Execute("RET")

StepIRET == Execute("IRET")

StepPUSH == Execute("PUSH")

StepPOP == Execute("POP")

StepPRN == Execute("PRN")

StepPRA == Execute("PRA")

StepCALL == Execute("CALL")

StepINT == Execute("INT")

StepJMP == Execute("JMP")

StepJEQ == Execute("JEQ")

StepJNE == Execute("JNE")

StepJGT == Execute("JGT")

StepJLT == Execute("JLT")

StepJLE == Execute("JLE")

StepJGE == Execute("JGE")

StepINC == Execute("INC")

StepDEC == Execute("DEC")

StepNOT == Execute("NOT")

StepLDI == Execute("LDI")

StepLD == Execute("LD")

StepST == Execute("ST")

StepADD == Execute("ADD")

StepSUB == Execute("SUB")

StepMUL == Execute("MUL")

StepDIV == Execute("DIV")

StepMOD == Execute("MOD")

StepCMP == Execute("CMP")

StepAND == Execute("AND")

StepOR == Execute("OR")

StepXOR == Execute("XOR")

StepSHL == Execute("SHL")

StepSHR == Execute("SHR")

\* one iteration of run() whose opcode byte has no handler
StepUndefined ==
    /\ Running
    /\ FetchOK
    /\ OpcodeByte \notin DOMAIN opcode_table
    /\ \E n \in {step(Self)} : Commit(n)
    /\ steps' = steps + 1
    /\ prev' = Snapshot
    /\ UNCHANGED <<lastCall, phase, pushed, popped>>

\* one iteration of run() whose first read, RAM[PC], is out of the list
StepFetchFault ==
    /\ Running
    /\ ~FetchOK
    /\ \E n \in {step(Self)} : Commit(n)
    /\ steps' = steps + 1
    /\ prev' = Snapshot
    /\ UNCHANGED <<lastCall, phase, pushed, popped>>

Next ==
    \/ StepNOP \/ StepHLT \/ StepRET \/ StepIRET \/ StepPUSH \/ StepPOP
    \/ StepPRN \/ StepPRA \/ StepCALL \/ StepINT \/ StepJMP \/ StepJEQ
    \/ StepJNE \/ StepJGT \/ StepJLT \/ StepJLE \/ StepJGE \/ StepINC
    \/ StepDEC \/ StepNOT \/ StepLDI \/ StepLD \/ StepST \/ StepADD
    \/ StepSUB \/ StepMUL \/ StepDIV \/ StepMOD \/ StepCMP \/ StepAND
    \/ StepOR \/ StepXOR \/ StepSHL \/ StepSHR
    \/ StepUndefined \/ StepFetchFault

Spec == Init /\ [][Next]_vars

\* one iteration of `while not self.HALT: self.step()`, whatever it executes:
\* every disjunct of Next is one (each has Running as guard and counts the
\* step), and while Running holds one of them is enabled, step() being total
RunIteration == Running /\ steps' = steps + 1

\* run() never pauses: the loop takes its next iteration whenever there is one
SpecRun == Init /\ [][Next]_vars /\ WF_steps(RunIteration)

-----------------------------------------------------------------------------
(* step() called directly.  Only run() reads HALT: a caller may go on      *)
(* calling step() on a halted machine.                                     *)

\* cpu.step() on a machine that has halted
StepHalted ==
    /\ HALT
    /\ err = "none"
    /\ phase = "run"
    /\ steps < MaxSteps
    /\ \E n \in {step(Self)} : Commit(n)
    /\ steps' = steps + 1
    /\ prev' = Snapshot
    /\ UNCHANGED <<lastCall, phase, pushed, popped>>

NextStep == Next \/ StepHalted

SpecStep == Init /\ [][NextStep]_vars

-----------------------------------------------------------------------------
(* The stack exercise: push() and pop() called directly on a constructed   *)
(* machine whose stack pointer was set with set_SP().                      *)

\* stack pointers the exercise starts from
StartSPs == {0, InitialSP}

\* the first value pushed, and the steps between successive values
FirstVals == {1}

Strides == {1, 3}

\* the values the next push() may be given: v, v + s, v + 2s, ... modulo 256
NextVals ==
    IF pushed = <<>> THEN FirstVals
    ELSE IF Len(pushed) = 1 THEN {(pushed[1] + s) % 256 : s \in Strides}
    ELSE {(2 * pushed[Len(pushed)] - pushed[Len(pushed) - 1]) % 256}

\* cpu = CPU(); cpu.set_SP(sp); prev keeps the machine before the first push
InitStack ==
    /\ \E sp \in StartSPs :
          /\ Holds(set_SP(CPU_init, sp))
          /\ prev = [m |-> set_SP(CPU_init, sp), call |-> NoCall]
    /\ steps = 0
    /\ lastCall = NoCall
    /\ phase = "push"
    /\ pushed = <<>>
    /\ popped = <<>>

\* cpu.push(v), while the exercise is still pushing
StackPush ==
    /\ phase = "push"
    /\ Len(pushed) < MaxPushes
    /\ \E v \in NextVals :
          /\ \E n \in {push(Self, v)} : Commit(n)
          /\ pushed' = Append(pushed, v)
    /\ UNCHANGED <<steps, prev, lastCall, phase, popped>>

\* cpu.pop(), once for every value pushed
StackPop ==
    /\ phase \in {"push", "pop"}
    /\ Len(popped) < Len(pushed)
    /\ \E p \in {pop(Self)} :
          /\ Commit(p.m)
          /\ popped' = IF Failed(p.m) THEN popped ELSE Append(popped, p.val)
    /\ phase' = "pop"
    /\ UNCHANGED <<steps, prev, lastCall, pushed>>

NextStack == StackPush \/ StackPop

SpecStack == InitStack /\ [][NextStack]_vars

-----------------------------------------------------------------------------
(* What the last iteration of run() executed, read off the machine before  *)
(* it.                                                                     *)

Before == prev.m

\* the handler the last step() dispatched to
LastHandler ==
    IF steps = 0 THEN "none"
    ELSE IF ~ValidIndex(Before.PC, RamSize) THEN "fetchfault"
    ELSE IF Before.RAM[ListIndex(Before.PC, RamSize)] \notin DOMAIN opcode_table
         THEN "undefined"
    ELSE opcode_table[Before.RAM[ListIndex(Before.PC, RamSize)]]

\* the total length the opcode byte announces: 1, 2 (bit 6) or 3 (bit 7)
InstrLength(op) ==
    IF BitOf(op, 7) = 1 THEN 3 ELSE IF BitOf(op, 6) = 1 THEN 2 ELSE 1

\* the machine is freshly constructed and loaded with program, before run()
Loaded(program) == steps = 0 /\ Self = load(CPU_init, program)

\* the code of program is in memory from address 0, as load() put it
CodeOf(program) == \A i \in 1..Len(program) : RAM[i - 1] = program[i]

RECURSIVE Reverse(_)
Reverse(s) == IF s = <<>> THEN <<>> ELSE Reverse(Tail(s)) \o <<Head(s)>>

-----------------------------------------------------------------------------
(* C1: every step that executes a defined opcode without error and whose   *)
(* handler did not set PC leaves PC = (PC before + L) mod 256, L being the *)
(* instruction's length: 1 with neither bit 6 nor bit 7, 2 with bit 6,     *)
(* 3 with bit 7.                                                           *)
C1_PCAdvancesByLength ==
    (/\ LastHandler \in {opcode_table[o] : o \in DOMAIN opcode_table}
     /\ err = "none"
     /\ ~PC_SET)
    => PC = (Before.PC + InstrLength(IR)) % 256

(* C2: in every state reachable by step() from a constructed and loaded    *)
(* machine, every register and every memory cell is an integer in 0..255.  *)
C2_BytesEverywhere ==
    /\ \A i \in DOMAIN R : R[i] \in 0..255
    /\ \A a \in DOMAIN RAM : RAM[a] \in 0..255

\* the exercise is balanced: every value pushed has been popped again
Balanced == phase = "pop" /\ Len(popped) = Len(pushed)

(* C3 as stated: for every number n of pushes, after n pops the values     *)
(* come back last-in first-out and SP is what it was before the first      *)
(* push.                                                                   *)
C3_BalancedLIFO_AnyCount ==
    Balanced => (popped = Reverse(pushed) /\ R[7] = Before.R[7])

(* C3, amended: the same for every n up to 256, the number of memory cells *)
(* (a starting SP in 0..255, values in 0..255): the pops return v_n .. v_1 *)
(* and SP is back at its starting value.                                   *)
C3_BalancedLIFO_WithinMemory ==
    (Balanced /\ Len(pushed) <= RamSize)
    => (popped = Reverse(pushed) /\ R[7] = Before.R[7] /\ err = "none")

\* C3 witness: all 256 cells were pushed and popped again, across the wrap of SP
C3_Witness_FullMemory ==
    Balanced /\ Len(pushed) = RamSize /\ Before.R[7] = 0

(* C4: ST a,b completes without a fatal error; afterwards the cell at      *)
(* R[a mod 8] holds R[b mod 8], written through the latch (MAR = R[a mod   *)
(* 8], MDR = R[b mod 8]), every other cell and every register is unchanged *)
(* and PC has advanced by 3.                                               *)
C4_STStoresThroughLatch ==
    LastHandler = "ST"
    => /\ err = "none"
       /\ MAR = Before.R[And7(opA)]
       /\ MDR = Before.R[And7(opB)]
       /\ ValidIndex(MAR, RamSize)
       /\ RAM = [Before.RAM EXCEPT ![ListIndex(MAR, RamSize)] = MDR]
       /\ R = Before.R
       /\ PC = (Before.PC + 3) % 256

\* handlers whose first operand byte names a register
RegisterOperandHandlers ==
    {"PUSH", "POP", "PRN", "PRA", "CALL", "INT", "JMP", "JEQ", "JNE", "JGT",
     "JLT", "JLE", "JGE", "INC", "DEC", "NOT", "LDI", "LD", "ST", "ADD",
     "SUB", "MUL", "DIV", "MOD", "CMP", "AND", "OR", "XOR", "SHL", "SHR"}

\* handlers whose second operand byte names a register too
TwoRegisterHandlers ==
    {"LD", "ST", "ADD", "SUB", "MUL", "DIV", "MOD", "CMP", "AND", "OR",
     "XOR", "SHL", "SHR"}

\* what an instruction leaves behind, the transient latches aside
Effect(m) ==
    <<m.R, m.PC, m.FL, m.RAM, m.HALT, m.interupts_enabled, m.out, m.err>>

\* the last instruction executed again from the machine before it, with its
\* register operands reduced modulo 8
WithWrappedOperands ==
    LET f == fetch(Before)
        g == [f EXCEPT !.opA = f.opA % 8,
                       !.opB = IF LastHandler \in TwoRegisterHandlers
                               THEN f.opB % 8 ELSE f.opB]
        x == Dispatch(g, LastHandler)
    IN  IF Failed(x) THEN x ELSE advance(x)

(* C5: an instruction with register operands, the ALU instructions         *)
(* included, never fails on a register index whatever its operand bytes    *)
(* in 0..255 are, and has the effect it has with the bytes taken modulo 8. *)
C5_RegisterOperandsWrap ==
    LastHandler \in RegisterOperandHandlers
    => /\ err # "RegisterIndexError"
       /\ Effect(Self) = Effect(WithWrappedOperands)

(* C6: after CMP a,b with a, b in 0..7, whatever FL was, exactly one of E, *)
(* G, L is 1: L if R[a] < R[b], G if R[a] > R[b], E if they are equal; no  *)
(* register and no memory cell changes.                                    *)
C6_CMPSetsExactlyOneFlag ==
    (LastHandler = "CMP" /\ opA \in 0..7 /\ opB \in 0..7)
    => /\ err = "none"
       /\ E(Self) + G(Self) + L(Self) = 1
       /\ (Before.R[opA] < Before.R[opB]) => L(Self) = 1
       /\ (Before.R[opA] > Before.R[opB]) => G(Self) = 1
       /\ (Before.R[opA] = Before.R[opB]) => E(Self) = 1
       /\ R = Before.R
       /\ RAM = Before.RAM

\* C6 witness: a CMP that found R[a] < R[b] while all eight bits of FL were set
C6_Witness_LessOverFullFlags ==
    /\ LastHandler = "CMP" /\ opA \in 0..7 /\ opB \in 0..7
    /\ Before.FL = 255
    /\ Before.R[opA] < Before.R[opB]
    /\ L(Self) = 1

C8_CallThenRetReturns ==
    /\ (LastHandler = "CALL" /\ err = "none")
       => /\ RAM[R[7]] = (Before.PC + 2) % 256
          /\ PC = R[And7(opA)]
    /\ (LastHandler = "RET" /\ prev.call.live /\ Before.R[7] = prev.call.sp1)
       => /\ err = "none"
          /\ PC = (prev.call.p + 2) % 256
          /\ Before.RAM[Before.R[7]] = prev.call.ret
          /\ R[7] = prev.call.sp0

(* C9: after NOT a with R[a] = x in 0..255, R[a] is the 8-bit complement   *)
(* 255 - x and every other register is unchanged.                          *)
C9_NOTIsByteComplement ==
    (LastHandler = "NOT" /\ opA \in 0..7 /\ Before.R[opA] \in 0..255)
    => /\ R[opA] = 255 - Before.R[opA]
       /\ \A i \in DOMAIN R : i # opA => R[i] = Before.R[i]

(* C10: step() on a byte at PC that is no key of the opcode table (the     *)
(* whole byte is the key) ends with the UndefinedOpcode error and leaves   *)
(* every register, every memory cell, FL, PC and Halted unchanged.         *)
C10_UndefinedOpcodeIsFatal ==
    LastHandler = "undefined"
    => /\ err = "UndefinedOpcode"
       /\ IR = Before.RAM[ListIndex(Before.PC, RamSize)]
       /\ R = Before.R
       /\ RAM = Before.RAM
       /\ FL = Before.FL
       /\ PC = Before.PC
       /\ HALT = Before.HALT

\* C10 witness: the second instruction of a program was the undefined byte 255
C10_Witness_UndefinedAfterProgress ==
    /\ LastHandler = "undefined"
    /\ IR = 255
    /\ steps = 2
    /\ Before.PC > 0

(* C11: Scenario A (LDI R0,8; LDI R1,9; ADD R0,R1; PRN R0; HLT) loaded     *)
(* into a fresh machine and run: run() eventually stops with Halted true,  *)
(* the output being the one line "17", R0 = 17 and R1 = 9, and stays so.   *)
C11_ScenarioAPrints17 ==
    Loaded(ScenarioA)
    ~> [](/\ HALT /\ err = "none"
          /\ out = str(17) \o <<10>>
          /\ R[0] = 17 /\ R[1] = 9)

\* C11 witness: Scenario A has run its five instructions and halted
C11_Witness_ScenarioAHalted ==
    /\ CodeOf(ScenarioA) /\ steps = 5
    /\ LastHandler = "HLT" /\ HALT
    /\ out = <<49, 55, 10>>

\* programs of instructions that neither jump nor fail, ending with HLT:
\* NOP; HLT, the two documented scenarios, and each prefix followed by HLT
StraightLinePrograms ==
    {<<0, 1>>, ScenarioA, ScenarioB} \cup {i \o <<1>> : i \in Prefixes}

\* run() is executing one of them
StraightLineRun == \E program \in StraightLinePrograms : CodeOf(program)

(* C12: run() on a program of instructions that neither jump nor fail and  *)
(* that ends with HLT reaches Halted.  step() is a function of the         *)
(* machine, so this needs every iteration that leaves the machine running  *)
(* to change it: an iteration that leaves the machine exactly as it found  *)
(* it is repeated forever and the HLT is never reached.                    *)
C12_StraightLineRunHalts ==
    (StraightLineRun /\ steps > 0 /\ ~HALT /\ err = "none")
    => Self # Before

(* C13: Scenario B (LDI R0,42; PUSH R0; POP R1; PRN R1; HLT) loaded into a *)
(* fresh machine and run: after the POP, SP (R7) is its initial value 0xF4 *)
(* and R1 = 42; run() eventually stops with Halted true and the output     *)
(* being exactly the one line "42".                                        *)
C13_ScenarioBPrints42 ==
    /\ []((CodeOf(ScenarioB) /\ LastHandler = "POP")
           => (R[7] = InitialSP /\ R[1] = 42 /\ err = "none"))
    /\ (Loaded(ScenarioB)
        ~> [](HALT /\ err = "none" /\ out = str(42) \o <<10>>))

\* C13 witness: the POP of Scenario B has brought SP back from 0xF3
C13_Witness_ScenarioBPopped ==
    /\ CodeOf(ScenarioB) /\ steps = 3
    /\ LastHandler = "POP"
    /\ Before.R[7] = InitialSP - 1 /\ R[7] = InitialSP
    /\ Before.RAM[InitialSP - 1] = 42 /\ R[1] = 42

\* bit i of the flags the last instruction found
FlagBefore(i) == (Before.FL \div (2 ^ i)) % 2 = 1

\* the condition of a conditional jump, read from the flags it found:
\* E is bit 0, G bit 1, L bit 2
JumpCondition(h) ==
    CASE h = "JEQ" -> FlagBefore(0)
      [] h = "JNE" -> ~FlagBefore(0)
      [] h = "JGT" -> FlagBefore(1)
      [] h = "JLT" -> FlagBefore(2)
      [] h = "JLE" -> FlagBefore(2) \/ FlagBefore(0)
      [] h = "JGE" -> FlagBefore(1) \/ FlagBefore(0)

ConditionalJumps == {"JEQ", "JNE", "JGT", "JLT", "JLE", "JGE"}

(* C14: a conditional jump JEQ, JNE, JGT, JLT, JLE, JGE with operand r     *)
(* sets PC to R[r mod 8] if its condition (E; not E; G; L; L or E; G or E) *)
(* holds in FL, and to (PC + 2) mod 256 otherwise; no register, no memory  *)
(* cell and no flag changes.                                               *)
C14_ConditionalJumps ==
    LastHandler \in ConditionalJumps
    => /\ err = "none"
       /\ PC = IF JumpCondition(LastHandler)
               THEN Before.R[opA % 8]
               ELSE (Before.PC + 2) % 256
       /\ R = Before.R
       /\ RAM = Before.RAM
       /\ FL = Before.FL

\* C14 witness: JLE jumped on the E flag alone, to the address in R7
C14_Witness_JLETakenOnEqual ==
    /\ LastHandler = "JLE"
    /\ FlagBefore(0) /\ ~FlagBefore(2)
    /\ opA = 7
    /\ PC = Before.R[7] /\ PC # (Before.PC + 2) % 256

\* the k-th value IRET pops (k = 1..9): the cell k - 1 above the stack
\* pointer it found, modulo the size of memory
Popped(k) == Before.RAM[(Before.R[7] + k - 1) % RamSize]

C16_LDIThenRegister ==
    LastHandler = "LDI"
    => /\ err = "none"
       /\ opA = Before.RAM[(Before.PC + 1) % 256]
       /\ opB = Before.RAM[(Before.PC + 2) % 256]
       /\ register(Self, opA) = opB
       /\ \A i \in DOMAIN R : i # opA % 8 => R[i] = Before.R[i]
       /\ RAM = Before.RAM
       /\ FL = Before.FL
       /\ PC = (Before.PC + 3) % 256

\* C16 witness: LDI with the operand byte 9, above the register numbers,
\* loaded 255 into R1
C16_Witness_LDIWrappedOperand ==
    /\ LastHandler = "LDI"
    /\ opA = 9 /\ opB = 255
    /\ Before.R[1] = 0 /\ register(Self, 9) = 255

\* bit i of the byte x
ByteBit(x, i) == (x \div (2 ^ i)) % 2

\* one bit of AND, OR, XOR
BitResult(h, p, q) ==
    CASE h = "AND" -> p * q
      [] h = "OR"  -> IF p + q > 0 THEN 1 ELSE 0
      [] h = "XOR" -> (p + q) % 2

RECURSIVE Bitwise(_, _, _, _)
\* the byte whose bits from i up are the bitwise h of the bits of x and y
Bitwise(h, x, y, i) ==
    IF i = 8 THEN 0
    ELSE (2 ^ i) * BitResult(h, ByteBit(x, i), ByteBit(y, i))
         + Bitwise(h, x, y, i + 1)

\* the 8-bit result of the reference operator of ALU instruction h on the
\* bytes x and y (a byte shifted by 8 or more places is 0)
Reference(h, x, y) ==
    CASE h = "INC" -> (x + 1) % 256
      [] h = "DEC" -> (x - 1) % 256
      [] h = "ADD" -> (x + y) % 256
      [] h = "SUB" -> (x - y) % 256
      [] h = "MUL" -> (x * y) % 256
      [] h = "DIV" -> x \div y
      [] h = "MOD" -> x % y
      [] h \in {"AND", "OR", "XOR"} -> Bitwise(h, x, y, 0)
      [] h = "SHL" -> IF y >= 8 THEN 0 ELSE (x * (2 ^ y)) % 256
      [] h = "SHR" -> IF y >= 8 THEN 0 ELSE x \div (2 ^ y)

OneOperandALU == {"INC", "DEC"}

TwoOperandALU ==
    {"ADD", "SUB", "MUL", "DIV", "MOD", "AND", "OR", "XOR", "SHL", "SHR"}

\* the last instruction was an ALU instruction on registers a, b in 0..7
\* holding bytes, the divisor of DIV and MOD not being 0
ALUOnBytes ==
    \/ /\ LastHandler \in OneOperandALU
       /\ opA \in 0..7
       /\ Before.R[opA] \in 0..255
    \/ /\ LastHandler \in TwoOperandALU
       /\ opA \in 0..7 /\ opB \in 0..7
       /\ Before.R[opA] \in 0..255 /\ Before.R[opB] \in 0..255
       /\ LastHandler \in {"DIV", "MOD"} => Before.R[opB] # 0

(* C17: for register operands a, b in 0..7 holding values in 0..255 (and   *)
(* R[b] # 0 for DIV and MOD) each of INC, DEC, ADD, SUB, MUL, DIV, MOD,    *)
(* AND, OR, XOR, SHL, SHR leaves in R[a] the 8-bit result of its reference *)
(* operator, and no other register changes.                                *)
C17_ALUReferenceResults ==
    ALUOnBytes
    => /\ err = "none"
       /\ R[opA] = Reference(LastHandler, Before.R[opA],
                             IF LastHandler \in TwoOperandALU
                             THEN Before.R[opB] ELSE 0)
       /\ \A i \in DOMAIN R : i # opA => R[i] = Before.R[i]

\* C17 witness: MUL of 200 by 255, whose product 51000 does not fit a byte
C17_Witness_MULOverflow ==
    /\ LastHandler = "MUL" /\ opA = 0 /\ opB = 1
    /\ Before.R[0] = 200 /\ Before.R[1] = 255
    /\ R[0] = 56

(* C18: in every state reachable from a constructed and loaded machine by  *)
(* step() calls, PC is an integer in 0..255, also after JMP, CALL and the  *)
(* conditional jumps to an address taken from a register and after RET and *)
(* IRET.                                                                   *)
C18_PCIsAByte == PC \in 0..255

(* C19: HLT sets Halted and changes no register, no memory cell and no     *)
(* flag; no later operation resets Halted (step() called on a halted       *)
(* machine included); and once Halted is true run() executes no further    *)
(* instruction cycle.                                                      *)
C19_HaltIsFinal ==
    /\ [](LastHandler = "HLT"
           => (/\ HALT /\ err = "none"
               /\ R = Before.R /\ RAM = Before.RAM /\ FL = Before.FL))
    /\ [][HALT => HALT']_vars
    /\ [](HALT => ~(ENABLED Next))

\* C19 witness: step() was called on a halted machine, which is halted still
C19_Witness_StepAfterHalt ==
    /\ steps >= 2
    /\ Before.HALT
    /\ LastHandler = "HLT"
    /\ HALT

(* C20: FL is written only by CMP and IRET: a step executing any other     *)
(* opcode (the jumps that read the flags, the other ALU instructions,      *)
(* PUSH/POP, LD/ST, CALL/RET, INT included) leaves FL unchanged, and CMP   *)
(* changes only bits 0..2 of FL.                                           *)
C20_FlagsWrittenByCMPAndIRET ==
    /\ (steps > 0 /\ LastHandler \notin {"CMP", "IRET"}) => FL = Before.FL
    /\ LastHandler = "CMP" => FL \div 8 = Before.FL \div 8

\* C20 witness: a CMP that found FL = 255 cleared G and E and kept bits 3..7
C20_Witness_CMPKeepsHighBits ==
    /\ LastHandler = "CMP" /\ err = "none"
    /\ Before.FL = 255
    /\ FL = 252

=============================================================================
